---- MODULE Spec2Model ----
(***************************************************************************)
(* Model of client.RestClient: the retry/backoff loop of Do and the        *)
(* single HTTP exchange performed by call.                                 *)
(*                                                                         *)
(* float64 values (intervalSeconds, backoffRate, sleep) are exact          *)
(* rationals <<numerator, denominator>>; every value used is dyadic, so    *)
(* the float64 arithmetic of the source is exact on them.  Durations are   *)
(* whole seconds.  A map[string]string / decoded JSON object is a set of   *)
(* <<key, value>> pairs; the nil map is the empty set.                     *)
(***************************************************************************)
EXTENDS Integers, Sequences, FiniteSets, TLC

VARIABLES
    cfg,        \* the RestClient fields
    request,    \* the request argument of Do
    ctxExpired, \* whether the ctx argument of Do is past its deadline / cancelled
    pc,         \* position of the Do invocation
    i,          \* loop index of Do
    retries,    \* local retries of Do
    status,     \* local status of Do
    err,        \* local err of Do
    resp,       \* local resp of Do
    sleep,      \* local sleep of Do (seconds, rational)
    out,        \* the value the response argument points to
    out0,       \* history: the value of out when Do was entered
    ret,        \* the pair returned by Do
    slept,      \* history: one entry per time.Sleep call
    attempts,   \* history: one entry per invocation of call
    warnings,   \* history: one entry per slog.WarnContext "retrying request"
    script,     \* what the backend does on the k-th request; <<>>: anything
    runs,       \* history: the outcome of each earlier invocation of Do
    peer        \* a second invocation of Do, on another RestClient

vars == <<cfg, request, ctxExpired, pc, i, retries, status, err, resp, sleep,
          out, out0, ret, slept, attempts, warnings, script, runs, peer>>

----------------------------------------------------------------------------
(* Bounds *)

MaxAttemptsBound == 3

\* how many times Do is invoked again on the same client
MaxRepeats == 1

----------------------------------------------------------------------------
(* Program constants *)

internalStatusRequestError == 999

StatusInternalServerError == 500

----------------------------------------------------------------------------
(* float64 arithmetic on exact rationals *)

RECURSIVE GCD(_, _)
GCD(a, b) == IF b = 0 THEN a ELSE GCD(b, a % b)

Rat(n, d) == IF n = 0 THEN <<0, 1>> ELSE <<n \div GCD(n, d), d \div GCD(n, d)>>

RatMul(p, q) == Rat(p[1] * q[1], p[2] * q[2])

\* math.Pow(x, k) for an integral exponent k >= 0
RECURSIVE Pow(_, _)
Pow(x, k) == IF k = 0 THEN <<1, 1>> ELSE RatMul(x, Pow(x, k - 1))

\* time.Duration(sleep): float64 -> int64 conversion, truncating toward zero
Duration(s) == s[1] \div s[2]

\* time.Second * time.Duration(sleep), in whole seconds
SleepDuration(s) == Duration(s)

\* sleep = r.intervalSeconds * math.Pow(r.backoffRate, float64(i+1))
NextSleep(intervalSeconds, backoffRate, idx) ==
    RatMul(intervalSeconds, Pow(backoffRate, idx + 1))

----------------------------------------------------------------------------
(* Values *)

NilErr == "nil"

NilBody == "<nil>"

NilMap == {}

Methods == {"GET", "GE T"}

URLs == {"http://localhost:8080", "://localhost"}

Headers == {NilMap, {<<"Content-Type", "application/json">>}}

\* (intervalSeconds, backoffRate) pairs
Backoffs == { <<<<0, 1>>, <<0, 1>>>>,
              <<<<1, 1>>, <<2, 1>>>>,
              <<<<1, 2>>, <<1, 1>>>>,
              <<<<3, 2>>, <<1, 1>>>> }

Timeouts == {0, 1}

\* request payloads: nil, and a value encoding/json cannot encode (a channel)
Requests == {"nil", "chan"}

BodySuccess == "{\"message\": \"success\"}"

BodyUnavailable == "{\"message\": \"unavailable\"}"

BodyNotJSON == "<html>"

Bodies == {BodySuccess, BodyUnavailable, BodyNotJSON}

\* what the caller's output map holds when Do is entered: nothing, or the
\* decoded value of an earlier response
Outputs == {NilMap, {<<"message", "stale">>}}

\* what the backend does with one request
Backends ==
    [kind : {"respond"}, status : {200, 404, 500, 503}, body : Bodies, latency : {0}]
    \cup
    [kind : {"respond"}, status : {200}, body : {BodySuccess}, latency : {2}]
    \cup
    [kind : {"refuse", "readfail", "hang"}, status : {200}, body : {BodySuccess},
     latency : {0}]

\* backends that treat every invocation of Do alike: the k-th request of an
\* invocation always gets the same treatment
BackendOK ==
    [kind |-> "respond", status |-> 200, body |-> BodySuccess, latency |-> 0]

BackendUnavailable ==
    [kind |-> "respond", status |-> 503, body |-> BodyUnavailable, latency |-> 0]

BackendRefuse ==
    [kind |-> "refuse", status |-> 200, body |-> BodySuccess, latency |-> 0]

ScriptBackends == {BackendOK, BackendUnavailable, BackendRefuse}

Scripts == [1..MaxAttemptsBound -> ScriptBackends]

\* the backends met by two concurrent invocations: one treatment for every
\* request, or a refused connection followed by answers
PairScripts ==
    { [k \in 1..MaxAttemptsBound |-> b] : b \in ScriptBackends }
    \cup
    { [k \in 1..MaxAttemptsBound |-> IF k = 1 THEN BackendRefuse ELSE BackendOK] }

\* the clients the builder chain can produce
Configs ==
    { [method |-> m, url |-> u, header |-> h, maxAttempts |-> n,
       intervalSeconds |-> bo[1], backoffRate |-> bo[2], timeout |-> t] :
      m \in Methods, u \in URLs, h \in Headers, n \in 0..MaxAttemptsBound,
      bo \in Backoffs, t \in Timeouts }

\* the clients of two concurrent invocations
PairConfigs ==
    { c \in Configs : c.maxAttempts >= 1 /\ c.method = "GET"
                        /\ c.url = "http://localhost:8080"
                        /\ c.header = NilMap /\ c.timeout = 0 }

----------------------------------------------------------------------------
(* encoding/json and net/http as used by call and Do *)

\* json.NewEncoder(&buf).Encode(request) succeeds
Encodable(req) == req # "chan"

\* http.NewRequest validates the method token and parses the URL
ValidMethod(m) == m \in {"", "GET", "POST", "PUT", "DELETE"}

ValidURL(u) == u # "://localhost"

\* the JSON object a body encodes, as a set of <<key, value>> pairs
Parse(body) ==
    IF body = BodySuccess THEN {<<"message", "success">>}
    ELSE IF body = BodyUnavailable THEN {<<"message", "unavailable">>}
    ELSE {}

ValidJSON(body) == body \in {BodySuccess, BodyUnavailable}

Keys(m) == {p[1] : p \in m}

\* variant: an empty input is skipped instead of being reported
Unmarshal_EmptyIsNoop(body, cur) ==
    IF body = NilBody
    THEN [err |-> NilErr, value |-> cur]
    ELSE IF ValidJSON(body)
    THEN [err |-> NilErr,
          value |-> {p \in cur : p[1] \notin Keys(Parse(body))} \cup Parse(body)]
    ELSE [err |-> "decode", value |-> cur]

\* json.Unmarshal(resp, &response): the input is validated before anything
\* is written; an object is decoded into the map the caller passed, key by key
Unmarshal(body, cur) ==
    IF ValidJSON(body)
    THEN [err |-> NilErr,
          value |-> {p \in cur : p[1] \notin Keys(Parse(body))} \cup Parse(body)]
    ELSE [err |-> "decode", value |-> cur]

----------------------------------------------------------------------------
(* RestClient.call *)

\* the *http.Request built by http.NewRequest(r.method, r.url, &buf)
NewRequest(c) ==
    [method |-> IF c.method = "" THEN "GET" ELSE c.method,
     url    |-> c.url,
     header |-> NilMap]

NoRequest == [method |-> "", url |-> "", header |-> NilMap]

\* variant: a failed io.ReadAll hands back the bytes read so far
Exchange_PartialBody(timeout, b) ==
    IF b.kind = "refuse"
    THEN [status |-> internalStatusRequestError, body |-> NilBody, err |-> "transport"]
    ELSE IF timeout > 0 /\ (b.latency > timeout \/ b.kind = "hang")
    THEN [status |-> internalStatusRequestError, body |-> NilBody, err |-> "deadline"]
    ELSE IF b.kind = "readfail"
    THEN [status |-> internalStatusRequestError, body |-> b.body, err |-> "read"]
    ELSE [status |-> b.status, body |-> b.body, err |-> NilErr]

\* client.Do(req) followed by io.ReadAll(resp.Body)
Exchange(timeout, b) ==
    IF b.kind = "refuse"
    THEN [status |-> internalStatusRequestError, body |-> NilBody, err |-> "transport"]
    ELSE IF timeout > 0 /\ (b.latency > timeout \/ b.kind = "hang")
    THEN [status |-> internalStatusRequestError, body |-> NilBody, err |-> "deadline"]
    ELSE IF b.kind = "readfail"
    THEN [status |-> internalStatusRequestError, body |-> NilBody, err |-> "read"]
    ELSE [status |-> b.status, body |-> b.body, err |-> NilErr]

\* client.Do(req) returns: a backend that never answers is only given up on
\* when client.Timeout is set
Returns(timeout, b) == ~(b.kind = "hang" /\ timeout = 0)

call(c, timeout, req, b) ==
    IF ~Encodable(req)
    THEN [status |-> internalStatusRequestError, body |-> NilBody, err |-> "encode"]
    ELSE IF ~(ValidMethod(c.method) /\ ValidURL(c.url))
    THEN [status |-> internalStatusRequestError, body |-> NilBody, err |-> "newrequest"]
    ELSE Exchange(timeout, b)

\* whether call gets as far as client.Do(req)
Sends(c, req) == Encodable(req) /\ ValidMethod(c.method) /\ ValidURL(c.url)

----------------------------------------------------------------------------
(* RestClient.Do *)

\* variant: the configured timeout is never copied to the http.Client
ClientTimeout_NeverSet(c) == 0

\* client.Timeout after "if r.timeout > 0 { client.Timeout = r.timeout }"
ClientTimeout(c) == IF c.timeout > 0 THEN c.timeout ELSE 0

\* variant: the loop runs while i <= r.maxAttempts
LoopCond_Inclusive(idx, maxAttempts) == idx <= maxAttempts

LoopCond(idx, maxAttempts) == idx < maxAttempts

\* variant: the loop breaks only below http.StatusBadRequest
Handled_Below400(st) == st < 400

\* variant: the sentinel status of a failed call also breaks the loop
Handled_SentinelBreaks(st) ==
    st < StatusInternalServerError \/ st = internalStatusRequestError

\* "if status < http.StatusInternalServerError { break }"
Handled(st) == st < StatusInternalServerError

\* variant: json.Unmarshal is handed a copy, the caller's value is not written
DoResult_DecodesCopy(st, e, body, cur) ==
    IF e # NilErr
    THEN [status |-> internalStatusRequestError, err |-> e, out |-> cur]
    ELSE IF Unmarshal(body, cur).err # NilErr
    THEN [status |-> internalStatusRequestError, err |-> Unmarshal(body, cur).err,
          out |-> cur]
    ELSE [status |-> st, err |-> NilErr, out |-> cur]

\* variant: the decode error is logged but nil is returned with the sentinel
DoResult_DropsDecodeError(st, e, body, cur) ==
    IF e # NilErr
    THEN [status |-> internalStatusRequestError, err |-> e, out |-> cur]
    ELSE IF Unmarshal(body, cur).err # NilErr
    THEN [status |-> internalStatusRequestError, err |-> NilErr, out |-> cur]
    ELSE [status |-> st, err |-> NilErr, out |-> Unmarshal(body, cur).value]

\* variant: a decode failure is returned with the HTTP status of the attempt
DoResult_StatusOnDecodeError(st, e, body, cur) ==
    IF e # NilErr
    THEN [status |-> internalStatusRequestError, err |-> e, out |-> cur]
    ELSE IF Unmarshal(body, cur).err # NilErr
    THEN [status |-> st, err |-> Unmarshal(body, cur).err, out |-> cur]
    ELSE [status |-> st, err |-> NilErr, out |-> Unmarshal(body, cur).value]

\* variant: the output is reset when the last attempt failed
DoResult_ClearsOutputOnError(st, e, body, cur) ==
    IF e # NilErr
    THEN [status |-> internalStatusRequestError, err |-> e, out |-> NilMap]
    ELSE IF Unmarshal(body, cur).err # NilErr
    THEN [status |-> internalStatusRequestError, err |-> Unmarshal(body, cur).err,
          out |-> cur]
    ELSE [status |-> st, err |-> NilErr, out |-> Unmarshal(body, cur).value]

\* variant: a last status >= 500 is reported as an error of its own
DoResult_RetriesExhausted(st, e, body, cur) ==
    IF e # NilErr
    THEN [status |-> internalStatusRequestError, err |-> e, out |-> cur]
    ELSE IF st >= StatusInternalServerError
    THEN [status |-> internalStatusRequestError, err |-> "exhausted", out |-> cur]
    ELSE IF Unmarshal(body, cur).err # NilErr
    THEN [status |-> internalStatusRequestError, err |-> Unmarshal(body, cur).err,
          out |-> cur]
    ELSE [status |-> st, err |-> NilErr, out |-> Unmarshal(body, cur).value]

\* the statements after the loop
DoResult(st, e, body, cur) ==
    IF e # NilErr
    THEN [status |-> internalStatusRequestError, err |-> e, out |-> cur]
    ELSE IF Unmarshal(body, cur).err # NilErr
    THEN [status |-> internalStatusRequestError, err |-> Unmarshal(body, cur).err,
          out |-> Unmarshal(body, cur).value]
    ELSE [status |-> st, err |-> NilErr, out |-> Unmarshal(body, cur).value]

\* variant: the event is built before retries is incremented
Warning_BeforeIncrement(e, st, backoff, attempt) ==
    [error |-> e, status |-> st, backoff |-> backoff, attempt |-> attempt - 1]

\* the attributes of the "retrying request" event
Warning(e, st, backoff, attempt) ==
    [error |-> e, status |-> st, backoff |-> backoff, attempt |-> attempt]

NoRet == [status |-> 0, err |-> NilErr]

\* variant: the backoff is kept from the previous invocation
InitialSleep_Retained == sleep

\* sleep := float64(0)
InitialSleep == <<0, 1>>

ZeroClient ==
    [method |-> "", url |-> "", header |-> NilMap, maxAttempts |-> 0,
     intervalSeconds |-> <<0, 1>>, backoffRate |-> <<0, 1>>, timeout |-> 0]

\* a second invocation of Do, on the client c, before it is entered
PeerOf(c, scr) ==
    [pc |-> "ready", cfg |-> c, script |-> scr, request |-> "nil",
     i |-> 0, retries |-> 0, status |-> 0, err |-> NilErr, resp |-> NilBody,
     sleep |-> <<0, 1>>, out |-> NilMap, out0 |-> NilMap, ret |-> NoRet,
     slept |-> <<>>, calls |-> 0]

\* no second invocation
NoPeer == [PeerOf(ZeroClient, <<>>) EXCEPT !.pc = "none"]

\* the loop of Do run to its end on its own: the last status, err and resp,
\* the sleeps and the number of calls
RECURSIVE DoLoop(_, _, _, _, _, _)
DoLoop(c, req, scr, idx, sl, acc) ==
    IF ~LoopCond(idx, c.maxAttempts) THEN acc
    ELSE LET r == call(c, ClientTimeout(c), req, scr[idx + 1])
             next == [status |-> r.status, err |-> r.err, resp |-> r.body,
                      slept |-> Append(acc.slept,
                                   [wait |-> sl, dur |-> SleepDuration(sl)]),
                      calls |-> acc.calls + 1]
         IN  IF Handled(r.status) THEN next
             ELSE DoLoop(c, req, scr, idx + 1,
                         NextSleep(c.intervalSeconds, c.backoffRate, idx), next)

\* one invocation of Do run on its own
DoAlone(c, req, o, scr) ==
    LET l == DoLoop(c, req, scr, 0, InitialSleep,
                    [status |-> 0, err |-> NilErr, resp |-> NilBody,
                     slept |-> <<>>, calls |-> 0])
        res == DoResult(l.status, l.err, l.resp, o)
    IN  [ret |-> [status |-> res.status, err |-> res.err], out |-> res.out,
         calls |-> l.calls, slept |-> l.slept]

Init ==
    /\ cfg = ZeroClient
    /\ request = "nil"
    /\ ctxExpired = FALSE
    /\ pc = "new"
    /\ i = 0
    /\ retries = 0
    /\ status = 0
    /\ err = NilErr
    /\ resp = NilBody
    /\ sleep = <<0, 1>>
    /\ out = NilMap
    /\ out0 = NilMap
    /\ ret = NoRet
    /\ slept = <<>>
    /\ attempts = <<>>
    /\ warnings = <<>>
    /\ script = <<>>
    /\ runs = <<>>
    /\ peer = NoPeer

\* the builder chain WithMethod(..).WithURL(..)...WithMaxAttempts(..)
Configure ==
    /\ pc = "new"
    /\ \E m \in Methods, u \in URLs, h \in Headers, n \in 0..MaxAttemptsBound,
          bo \in Backoffs, t \in Timeouts :
          cfg' = [method |-> m, url |-> u, header |-> h, maxAttempts |-> n,
                  intervalSeconds |-> bo[1], backoffRate |-> bo[2], timeout |-> t]
    /\ pc' = "ready"
    /\ UNCHANGED <<request, ctxExpired, i, retries, status, err, resp, sleep,
                   out, out0, ret, slept, attempts, warnings,
                   script, runs, peer>>

\* entry of Do: the var block, the http.Client, sleep := 0, i := 0
DoEnter ==
    /\ pc = "ready"
    /\ \E rq \in Requests : request' = rq
    /\ \E o \in Outputs : out' = o /\ out0' = o
    /\ i' = 0
    /\ retries' = 0
    /\ status' = 0
    /\ err' = NilErr
    /\ resp' = NilBody
    /\ sleep' = InitialSleep
    /\ pc' = "loop"
    /\ UNCHANGED <<cfg, ctxExpired, ret, slept, attempts, warnings,
                   script, runs, peer>>

\* what the backend may do with the next request
BackendChoices ==
    IF script = <<>> THEN Backends ELSE {script[Len(attempts) + 1]}

\* loop condition true, then time.Sleep(time.Second * time.Duration(sleep))
LoopSleep ==
    /\ pc = "loop"
    /\ LoopCond(i, cfg.maxAttempts)
    /\ slept' = Append(slept, [wait |-> sleep, dur |-> SleepDuration(sleep)])
    /\ pc' = "call"
    /\ UNCHANGED <<cfg, request, ctxExpired, i, retries, status, err, resp,
                   sleep, out, out0, ret, attempts, warnings,
                   script, runs, peer>>

\* status, resp, err = r.call(...); the retry decision; the next backoff; i++
LoopCall ==
    /\ pc = "call"
    /\ \E b \in BackendChoices :
        /\ Sends(cfg, request) => Returns(ClientTimeout(cfg), b)
        /\ LET r == call(cfg, ClientTimeout(cfg), request, b) IN
           /\ status' = r.status
           /\ resp' = r.body
           /\ err' = r.err
           /\ attempts' = Append(attempts,
                  [sent   |-> Sends(cfg, request),
                   req    |-> IF Sends(cfg, request) THEN NewRequest(cfg) ELSE NoRequest,
                   backend |-> IF Sends(cfg, request) THEN b
                               ELSE [kind |-> "none", status |-> 0,
                                     body |-> NilBody, latency |-> 0],
                   status |-> r.status,
                   body   |-> r.body,
                   err    |-> r.err,
                   ctxExpired |-> ctxExpired])
           /\ IF Handled(r.status)
              THEN /\ pc' = "after"
                   /\ UNCHANGED <<i, retries, sleep, warnings>>
              ELSE /\ retries' = retries + 1
                   /\ warnings' = Append(warnings,
                          Warning(r.err, r.status, sleep, retries + 1))
                   /\ sleep' = NextSleep(cfg.intervalSeconds, cfg.backoffRate, i)
                   /\ i' = i + 1
                   /\ pc' = "loop"
    /\ UNCHANGED <<cfg, request, ctxExpired, out, out0, ret, slept,
                   script, runs, peer>>

\* client.Do(req) never returns: no client.Timeout and a backend that never
\* answers
LoopCallBlocks ==
    /\ pc = "call"
    /\ Sends(cfg, request)
    /\ \E b \in BackendChoices : ~Returns(ClientTimeout(cfg), b)
    /\ pc' = "blocked"
    /\ UNCHANGED <<cfg, request, ctxExpired, i, retries, status, err, resp,
                   sleep, out, out0, ret, slept, attempts, warnings,
                   script, runs, peer>>

\* loop condition false
LoopExit ==
    /\ pc = "loop"
    /\ ~LoopCond(i, cfg.maxAttempts)
    /\ pc' = "after"
    /\ UNCHANGED <<cfg, request, ctxExpired, i, retries, status, err, resp,
                   sleep, out, out0, ret, slept, attempts, warnings,
                   script, runs, peer>>

\* the error check, json.Unmarshal and the return
DoReturn ==
    /\ pc = "after"
    /\ ret' = [status |-> DoResult(status, err, resp, out).status,
               err    |-> DoResult(status, err, resp, out).err]
    /\ out' = DoResult(status, err, resp, out).out
    /\ pc' = "done"
    /\ UNCHANGED <<cfg, request, ctxExpired, i, retries, status, err, resp,
                   sleep, out0, slept, attempts, warnings,
                   script, runs, peer>>

\* the builder chain, against a backend that treats every invocation alike
ConfigureScripted ==
    /\ pc = "new"
    /\ cfg' \in Configs
    /\ script' \in Scripts
    /\ pc' = "ready"
    /\ UNCHANGED <<request, ctxExpired, i, retries, status, err, resp, sleep,
                   out, out0, ret, slept, attempts, warnings, runs, peer>>

\* Do is invoked again on the same client with the same request; the caller
\* passes the same map again or one equal to what it passed before
DoAgain ==
    /\ pc = "done"
    /\ Len(runs) < MaxRepeats
    /\ runs' = Append(runs, [cfg |-> cfg, ret |-> ret, out |-> out,
                             calls |-> Len(attempts), slept |-> slept])
    /\ \E o \in {out0, out} : out' = o /\ out0' = o
    /\ i' = 0
    /\ retries' = 0
    /\ status' = 0
    /\ err' = NilErr
    /\ resp' = NilBody
    /\ sleep' = InitialSleep
    /\ ret' = NoRet
    /\ slept' = <<>>
    /\ attempts' = <<>>
    /\ warnings' = <<>>
    /\ pc' = "loop"
    /\ UNCHANGED <<cfg, request, ctxExpired, script, peer>>

\* two clients are built and Do is invoked on each, on goroutines of their own
ConfigurePair ==
    /\ pc = "new"
    /\ \E c1 \in PairConfigs, c2 \in PairConfigs, s1 \in PairScripts,
          s2 \in PairScripts :
          /\ c1 # c2
          /\ cfg' = c1
          /\ script' = s1
          /\ peer' = PeerOf(c2, s2)
    /\ pc' = "ready"
    /\ UNCHANGED <<request, ctxExpired, i, retries, status, err, resp, sleep,
                   out, out0, ret, slept, attempts, warnings, runs>>

\* variant: the backoff is a package-level variable, the one the other
\* invocation writes
PeerBackoff_Shared == sleep

\* the sleep local of the second invocation
PeerBackoff == peer.sleep

PeerUnchanged ==
    UNCHANGED <<cfg, request, ctxExpired, pc, i, retries, status, err, resp,
                sleep, out, out0, ret, slept, attempts, warnings, script, runs>>

\* entry of Do, second invocation
PeerEnter ==
    /\ peer.pc = "ready"
    /\ peer' = [peer EXCEPT !.i = 0, !.retries = 0, !.status = 0,
                            !.err = NilErr, !.resp = NilBody,
                            !.sleep = InitialSleep, !.pc = "loop"]
    /\ PeerUnchanged

\* loop condition true, then time.Sleep, second invocation
PeerSleep ==
    /\ peer.pc = "loop"
    /\ LoopCond(peer.i, peer.cfg.maxAttempts)
    /\ peer' = [peer EXCEPT
                   !.slept = Append(@, [wait |-> PeerBackoff,
                                        dur |-> SleepDuration(PeerBackoff)]),
                   !.pc = "call"]
    /\ PeerUnchanged

\* r.call, the retry decision, the next backoff and i++, second invocation
PeerCall ==
    /\ peer.pc = "call"
    /\ LET r == call(peer.cfg, ClientTimeout(peer.cfg), peer.request,
                     peer.script[peer.calls + 1])
       IN  peer' = IF Handled(r.status)
                   THEN [peer EXCEPT !.status = r.status, !.resp = r.body,
                                     !.err = r.err, !.calls = @ + 1,
                                     !.pc = "after"]
                   ELSE [peer EXCEPT !.status = r.status, !.resp = r.body,
                                     !.err = r.err, !.calls = @ + 1,
                                     !.retries = @ + 1,
                                     !.sleep = NextSleep(peer.cfg.intervalSeconds,
                                                         peer.cfg.backoffRate,
                                                         peer.i),
                                     !.i = @ + 1,
                                     !.pc = "loop"]
    /\ PeerUnchanged

\* loop condition false, second invocation
PeerExit ==
    /\ peer.pc = "loop"
    /\ ~LoopCond(peer.i, peer.cfg.maxAttempts)
    /\ peer' = [peer EXCEPT !.pc = "after"]
    /\ PeerUnchanged

\* the error check, json.Unmarshal and the return, second invocation
PeerReturn ==
    /\ peer.pc = "after"
    /\ LET res == DoResult(peer.status, peer.err, peer.resp, peer.out)
       IN  peer' = [peer EXCEPT
                      !.ret = [status |-> res.status, err |-> res.err],
                      !.out = res.out,
                      !.pc = "done"]
    /\ PeerUnchanged

\* the deadline of ctx passes, or its cancel function is called
CtxExpire ==
    /\ pc \in {"ready", "loop", "call", "after"}
    /\ ~ctxExpired
    /\ ctxExpired' = TRUE
    /\ UNCHANGED <<cfg, request, pc, i, retries, status, err, resp, sleep,
                   out, out0, ret, slept, attempts, warnings,
                   script, runs, peer>>

Next ==
    \/ Configure
    \/ DoEnter
    \/ LoopSleep
    \/ LoopCall
    \/ LoopCallBlocks
    \/ LoopExit
    \/ DoReturn
    \/ CtxExpire

Spec == Init /\ [][Next]_vars

\* Do runs on its own goroutine: a step that can be taken is taken
Fairness ==
    /\ WF_vars(LoopSleep)
    /\ WF_vars(LoopCall)
    /\ WF_vars(LoopExit)
    /\ WF_vars(DoReturn)

\* the steps of Do alone: ctx reaches only slog, so its expiry plays no part
\* in the progress of Do
NextDo ==
    \/ Configure
    \/ DoEnter
    \/ LoopSleep
    \/ LoopCall
    \/ LoopCallBlocks
    \/ LoopExit
    \/ DoReturn

\* successive invocations of Do on one client
NextRepeat ==
    \/ ConfigureScripted
    \/ DoEnter
    \/ LoopSleep
    \/ LoopCall
    \/ LoopExit
    \/ DoReturn
    \/ DoAgain

RepeatSpec == Init /\ [][NextRepeat]_vars

\* two invocations of Do running concurrently on two clients
NextPair ==
    \/ ConfigurePair
    \/ DoEnter
    \/ LoopSleep
    \/ LoopCall
    \/ LoopExit
    \/ DoReturn
    \/ PeerEnter
    \/ PeerSleep
    \/ PeerCall
    \/ PeerExit
    \/ PeerReturn

PairSpec == Init /\ [][NextPair]_vars

LiveSpec == Init /\ [][NextDo]_vars /\ Fairness

----------------------------------------------------------------------------
(* Vocabulary of the properties *)

Done == pc = "done"

NumCalls == Len(attempts)

LastAttempt == attempts[Len(attempts)]

\* the attempt completed an HTTP exchange: a real status, a body, no error
Completed(a) == a.err = NilErr

\* every attempt so far completed an exchange with a status >= 500
AlwaysServerError ==
    \A k \in 1..Len(attempts) :
        Completed(attempts[k]) /\ attempts[k].status >= StatusInternalServerError

\* the seconds slept before call k are exactly the rational q
SleptExactly(k, q) == <<slept[k].dur, 1>> = q

----------------------------------------------------------------------------
(* C1 *)

\* C1: with maxAttempts = N >= 1 and a backend that answers every request
\* with a status >= 500, Do invokes call exactly N times, sleeps nothing
\* before the first call, and sleeps intervalSeconds * backoffRate^k seconds
\* before call k+1, for k = 1..N-1; nothing is slept after the last call.
C1_ExactBackoffWaits ==
    (Done /\ cfg.maxAttempts >= 1 /\ AlwaysServerError) =>
        /\ NumCalls = cfg.maxAttempts
        /\ Len(slept) = cfg.maxAttempts
        /\ slept[1].dur = 0
        /\ \A k \in 1..(cfg.maxAttempts - 1) :
               SleptExactly(k + 1,
                   RatMul(cfg.intervalSeconds, Pow(cfg.backoffRate, k)))

----------------------------------------------------------------------------
(* C2 *)

\* C2: an attempt with a status below 500 is the last one: no call and no
\* sleep follows it; when that attempt is the first one, call ran once,
\* nothing was slept and retries is still 0.
C2_HandledStatusStopsLoop ==
    \A k \in 1..Len(attempts) :
        attempts[k].status < StatusInternalServerError =>
            /\ k = Len(attempts)
            /\ Len(slept) = k
            /\ pc \in {"after", "done"}
            /\ retries = k - 1
            /\ (k = 1 => slept[1].dur = 0 /\ retries = 0)

C2_Witness ==
    /\ Done
    /\ cfg.maxAttempts = 3
    /\ NumCalls = 2
    /\ attempts[1].status = 503
    /\ attempts[2].status = 404

----------------------------------------------------------------------------
(* C3 *)

\* C3: when the last attempt completed an exchange without error and the
\* body the backend served decodes, Do returns that attempt's HTTP status
\* with a nil error and the output holds the decoded value of that body.
C3_SuccessReturnsLastStatusAndBody ==
    (Done /\ NumCalls >= 1 /\ Completed(LastAttempt)
          /\ ValidJSON(LastAttempt.backend.body)) =>
        /\ ret.status = LastAttempt.backend.status
        /\ ret.err = NilErr
        /\ out = Parse(LastAttempt.backend.body)

C3_Witness ==
    /\ Done
    /\ cfg.maxAttempts = 3
    /\ NumCalls = 2
    /\ attempts[1].body = BodyUnavailable
    /\ LastAttempt.backend.status = 200
    /\ LastAttempt.backend.body = BodySuccess
    /\ ret = [status |-> 200, err |-> NilErr]
    /\ out = {<<"message", "success">>}

----------------------------------------------------------------------------
(* C4 *)

\* C4: the pair Do returns has a non-nil error exactly when its status is
\* the sentinel 999, and with a nil error the status is the HTTP status of
\* the last attempt.
C4_ErrorIffSentinel ==
    Done =>
        /\ (ret.err # NilErr) <=> (ret.status = internalStatusRequestError)
        /\ ret.err = NilErr =>
               NumCalls >= 1 /\ ret.status = LastAttempt.backend.status

C4_Witness ==
    /\ Done
    /\ NumCalls = 2
    /\ LastAttempt.backend.status = 404
    /\ LastAttempt.backend.body = BodyNotJSON
    /\ ret = [status |-> internalStatusRequestError, err |-> "decode"]

----------------------------------------------------------------------------
(* C5 *)

\* the backend needs longer than the configured per-attempt timeout
SlowerThanTimeout(a) ==
    a.sent /\ a.backend.kind # "refuse" /\ cfg.timeout > 0
           /\ a.backend.latency > cfg.timeout

\* C5: with a timeout > 0, an attempt whose backend is slower than the
\* timeout ends with the deadline-exceeded error, the sentinel status and no
\* body; with maxAttempts = 1 Do then returns (999, deadline exceeded) after
\* exactly one call and leaves the output untouched.
C5_TimeoutGivesDeadlineExceeded ==
    /\ \A k \in 1..Len(attempts) :
           SlowerThanTimeout(attempts[k]) =>
               /\ attempts[k].err = "deadline"
               /\ attempts[k].status = internalStatusRequestError
               /\ attempts[k].body = NilBody
    /\ (Done /\ cfg.maxAttempts = 1 /\ SlowerThanTimeout(attempts[1])) =>
           /\ ret = [status |-> internalStatusRequestError, err |-> "deadline"]
           /\ NumCalls = 1
           /\ out = out0

C5_Witness ==
    /\ Done
    /\ cfg.maxAttempts = 1
    /\ cfg.timeout = 1
    /\ NumCalls = 1
    /\ attempts[1].backend.latency = 2
    /\ ret = [status |-> internalStatusRequestError, err |-> "deadline"]

----------------------------------------------------------------------------
(* C6 *)

\* C6: every request call sends carries exactly the header mapping set with
\* WithHeader, and the configured method and URL, on every attempt.
C6_HeadersOnEveryAttempt ==
    \A k \in 1..Len(attempts) :
        attempts[k].sent =>
            /\ attempts[k].req.header = cfg.header
            /\ attempts[k].req.method = cfg.method
            /\ attempts[k].req.url = cfg.url

----------------------------------------------------------------------------
(* C7 *)

\* C7: a network call made while the context of Do is expired or cancelled
\* fails with a deadline/cancellation error: sentinel status, no body.
C7_ExpiredContextFailsCall ==
    \A k \in 1..Len(attempts) :
        (attempts[k].sent /\ attempts[k].ctxExpired) =>
            /\ attempts[k].err \in {"deadline", "canceled"}
            /\ attempts[k].status = internalStatusRequestError
            /\ attempts[k].body = NilBody

----------------------------------------------------------------------------
(* C8 *)

\* C8: the number of calls never exceeds maxAttempts; with maxAttempts = 1
\* Do makes exactly one call and never sleeps a positive time, whatever the
\* call returns.
C8_AtMostMaxAttempts ==
    /\ NumCalls <= cfg.maxAttempts
    /\ cfg.maxAttempts = 1 =>
           /\ Len(slept) <= 1
           /\ \A k \in 1..Len(slept) : slept[k].dur = 0 /\ slept[k].wait = <<0, 1>>
           /\ Done => NumCalls = 1

C8_Witness ==
    /\ Done
    /\ cfg.maxAttempts = 1
    /\ NumCalls = 1
    /\ attempts[1].status = 503
    /\ cfg.intervalSeconds = <<1, 1>>

----------------------------------------------------------------------------
(* C9 *)

NotRetriedErrors == {"encode", "newrequest", "read"}

\* C9: an attempt that fails with a payload-encoding, request-construction
\* or body-read error is the last attempt, and Do returns that error.
C9_LocalErrorsNotRetried ==
    \A k \in 1..Len(attempts) :
        attempts[k].err \in NotRetriedErrors =>
            /\ k = Len(attempts)
            /\ Len(slept) = k
            /\ pc \in {"after", "done"}
            /\ Done => ret.err = attempts[k].err

----------------------------------------------------------------------------
(* C10 *)

\* C10: when the last attempt completed an exchange without error and its
\* body does not decode, Do returns the sentinel 999 with the decode error,
\* whatever the HTTP status of that attempt.
C10_DecodeFailureGivesSentinel ==
    (Done /\ NumCalls >= 1 /\ Completed(LastAttempt)
          /\ ~ValidJSON(LastAttempt.backend.body)) =>
        /\ ret.status = internalStatusRequestError
        /\ ret.err = "decode"

C10_Witness ==
    /\ Done
    /\ NumCalls = 3
    /\ Completed(LastAttempt)
    /\ LastAttempt.backend.status = 503
    /\ LastAttempt.backend.body = BodyNotJSON
    /\ ret = [status |-> internalStatusRequestError, err |-> "decode"]

----------------------------------------------------------------------------
(* C11 *)

\* C11: when the error of the last attempt is non-nil, Do returns the
\* sentinel 999 with exactly that error and the caller's output is what it
\* was when Do was entered.
C11_ErrorLeavesOutputUntouched ==
    (Done /\ NumCalls >= 1 /\ LastAttempt.err # NilErr) =>
        /\ ret = [status |-> internalStatusRequestError, err |-> LastAttempt.err]
        /\ out = out0

C11_Witness ==
    /\ Done
    /\ NumCalls = 2
    /\ attempts[1].body = BodySuccess
    /\ LastAttempt.err = "transport"
    /\ out0 = {<<"message", "stale">>}
    /\ out = out0
    /\ ret = [status |-> internalStatusRequestError, err |-> "transport"]

----------------------------------------------------------------------------
(* C14 *)

\* C14: with maxAttempts below 1 Do never invokes call and never sleeps, and
\* it returns the sentinel 999 with a non-nil error.
C14_ZeroAttemptsRejected ==
    (pc # "new" /\ cfg.maxAttempts < 1) =>
        /\ NumCalls = 0
        /\ Len(slept) = 0
        /\ Done => (ret.status = internalStatusRequestError /\ ret.err # NilErr)

C14_Witness ==
    /\ Done
    /\ cfg.maxAttempts = 0
    /\ NumCalls = 0
    /\ ret = [status |-> internalStatusRequestError, err |-> "decode"]

----------------------------------------------------------------------------
(* C15 *)

\* C15: every return of call is either (999, no body, non-nil error), on
\* each of the four failure kinds, or (the HTTP status, the full body the
\* backend served, nil error); an error never comes with a body.
C15_CallReturnsErrorOrBody ==
    \A k \in 1..Len(attempts) :
        LET a == attempts[k] IN
        /\ a.err # NilErr =>
               a.status = internalStatusRequestError /\ a.body = NilBody
        /\ a.err = NilErr =>
               /\ a.sent
               /\ a.backend.kind = "respond"
               /\ a.status = a.backend.status
               /\ a.body = a.backend.body
        /\ ~Encodable(request) => a.err = "encode"
        /\ (Encodable(request) /\ ~a.sent) => a.err = "newrequest"
        /\ (a.sent /\ a.backend.kind = "refuse") => a.err = "transport"
        /\ (a.sent /\ a.backend.kind = "readfail") => a.err \in {"read", "deadline"}

C15_Witness ==
    /\ NumCalls >= 1
    /\ LastAttempt.sent
    /\ LastAttempt.backend.kind = "readfail"
    /\ LastAttempt.backend.body = BodySuccess
    /\ LastAttempt.err = "read"
    /\ LastAttempt.body = NilBody

----------------------------------------------------------------------------
(* C16 *)

\* C16: the error Do reports is that of the last attempt only: a failed last
\* attempt gives its error; a last attempt that completed with a status
\* >= 500 gives no error of its own, whatever earlier attempts returned, and
\* with a body that decodes Do returns that status with a nil error.
C16_LastAttemptDecidesError ==
    (Done /\ NumCalls >= 1) =>
        /\ LastAttempt.err # NilErr => ret.err = LastAttempt.err
        /\ LastAttempt.err = NilErr => ret.err \in {NilErr, "decode"}
        /\ (LastAttempt.err = NilErr
              /\ LastAttempt.status >= StatusInternalServerError
              /\ ValidJSON(LastAttempt.body)) =>
               ret = [status |-> LastAttempt.status, err |-> NilErr]

C16_Witness ==
    /\ Done
    /\ NumCalls = 2
    /\ attempts[1].err = "transport"
    /\ LastAttempt.err = NilErr
    /\ LastAttempt.status = 503
    /\ LastAttempt.body = BodyUnavailable
    /\ ret = [status |-> 503, err |-> NilErr]

----------------------------------------------------------------------------
(* C17 *)

TransportErrors == {"transport", "deadline"}

\* every attempt so far failed at transport level
AlwaysTransportError ==
    \A k \in 1..Len(attempts) : attempts[k].err \in TransportErrors

\* the backoff handed to the sleep before call k
ExpectedWait(k) ==
    IF k = 1 THEN <<0, 1>>
    ELSE RatMul(cfg.intervalSeconds, Pow(cfg.backoffRate, k - 1))

\* C17: an attempt that fails at transport level is followed, when attempts
\* remain, by the wait intervalSeconds * backoffRate^(attemptIndex+1) and by
\* another call; a backend that always fails at transport level gets as many
\* calls and the same waits as one that always answers >= 500.
C17_TransportErrorRetriedLikeServerError ==
    /\ \A k \in 1..Len(attempts) :
           (attempts[k].err \in TransportErrors /\ k < cfg.maxAttempts) =>
               /\ Len(attempts) = k => pc \in {"loop", "call", "blocked"}
               /\ Len(slept) > k => slept[k + 1].wait = ExpectedWait(k + 1)
    /\ (Done /\ cfg.maxAttempts >= 1
             /\ (AlwaysTransportError \/ AlwaysServerError)) =>
           /\ NumCalls = cfg.maxAttempts
           /\ Len(slept) = cfg.maxAttempts
           /\ \A k \in 1..Len(slept) : slept[k].wait = ExpectedWait(k)

C17_Witness ==
    /\ Done
    /\ cfg.maxAttempts = 3
    /\ cfg.intervalSeconds = <<1, 1>>
    /\ cfg.backoffRate = <<2, 1>>
    /\ NumCalls = 3
    /\ AlwaysTransportError
    /\ slept[2].wait = <<2, 1>>
    /\ slept[3].wait = <<4, 1>>

----------------------------------------------------------------------------
(* C18 *)

\* C18: the duration slept before each attempt equals the backoff computed
\* for it, fractional values included.
C18_SleepsExactlyTheBackoff ==
    \A k \in 1..Len(slept) : <<slept[k].dur, 1>> = slept[k].wait

----------------------------------------------------------------------------
(* C20 *)

\* the attempts whose status is >= 500
RetriedAttempts ==
    {k \in 1..Len(attempts) : attempts[k].status >= StatusInternalServerError}

\* C20: every attempt with a status >= 500 adds one to retries and emits one
\* warning carrying the new counter value, the status and error of the
\* attempt and the backoff that preceded it; an attempt with a status below
\* 500 does neither, so retries counts the attempts with a status >= 500.
C20_OneWarningPerRetriedAttempt ==
    /\ retries = Cardinality(RetriedAttempts)
    /\ Len(warnings) = retries
    /\ \A j \in 1..Len(warnings) :
           /\ j \in RetriedAttempts
           /\ warnings[j].attempt = j
           /\ warnings[j].status = attempts[j].status
           /\ warnings[j].error = attempts[j].err
           /\ warnings[j].backoff = slept[j].wait
    /\ \A k \in 1..Len(attempts) :
           k \notin RetriedAttempts => Len(warnings) < k

C20_Witness ==
    /\ Done
    /\ NumCalls = 3
    /\ attempts[1].status = 503
    /\ attempts[2].status = internalStatusRequestError
    /\ attempts[3].status = 200
    /\ retries = 2
    /\ Len(warnings) = 2
    /\ warnings[2].backoff = <<3, 2>>

----------------------------------------------------------------------------
(* C19 *)

\* C19: an invocation of Do on a client with a timeout > 0 eventually
\* returns a (status, error) pair, whatever the backend does on each attempt.
C19_DoEventuallyReturns ==
    (pc = "loop" /\ cfg.timeout > 0) ~> Done

C19_Witness ==
    /\ Done
    /\ cfg.timeout = 1
    /\ cfg.maxAttempts = 3
    /\ NumCalls = 3
    /\ attempts[1].backend.kind = "hang"
    /\ attempts[2].backend.kind = "refuse"
    /\ attempts[3].backend.status = 503
    /\ ret.status = internalStatusRequestError

----------------------------------------------------------------------------
(* C12 *)

\* C12: Do leaves every field of the RestClient as it was, and an invocation
\* repeated on the same client against a backend that behaves as before
\* returns the same status and error, leaves the same decoded output, and
\* makes as many calls with the same waits as each earlier invocation.
C12_RepeatedDoSameOutcome ==
    \A r \in 1..Len(runs) :
        /\ cfg = runs[r].cfg
        /\ Done =>
               /\ ret = runs[r].ret
               /\ out = runs[r].out
               /\ NumCalls = runs[r].calls
               /\ slept = runs[r].slept

C12_Witness ==
    /\ Done
    /\ Len(runs) = 1
    /\ cfg.intervalSeconds = <<1, 1>>
    /\ cfg.backoffRate = <<2, 1>>
    /\ NumCalls = 2
    /\ attempts[1].err = "transport"
    /\ slept[2].dur = 2
    /\ ret = [status |-> 200, err |-> NilErr]
    /\ out = {<<"message", "success">>}

----------------------------------------------------------------------------
(* C13 *)

\* C13: of two invocations of Do running concurrently on distinct clients,
\* each returns the status and error, leaves the output, and makes the calls
\* and the sleeps it would make when run on its own, however their steps
\* interleave.
C13_ConcurrentDoIndependent ==
    /\ (Done /\ peer.pc # "none") =>
           [ret |-> ret, out |-> out, calls |-> NumCalls, slept |-> slept]
               = DoAlone(cfg, request, out0, script)
    /\ peer.pc = "done" =>
           [ret |-> peer.ret, out |-> peer.out, calls |-> peer.calls,
            slept |-> peer.slept]
               = DoAlone(peer.cfg, peer.request, peer.out0, peer.script)

C13_Witness ==
    /\ Done
    /\ peer.pc = "done"
    /\ cfg.backoffRate = <<2, 1>>
    /\ peer.cfg.intervalSeconds = <<3, 2>>
    /\ NumCalls = 3
    /\ peer.calls = 2
    /\ slept[3].dur = 4
    /\ peer.slept[2].dur = 1
    /\ ret.status = 503
    /\ peer.ret.status = 200

====
